---------------------------- MODULE Spec2Model ----------------------------
(***************************************************************************)
(* Jet-Accept webhook watchers.                                            *)
(*                                                                         *)
(* Three near-duplicate scripts share one design: fetch the recent         *)
(* transactions of a wallet (with retry and back-off), pick the ones that  *)
(* carry a Jet-Accept marker, POST a webhook for each one that has no flag *)
(* file yet and write the flag file after an accepted POST.                *)
(*                                                                         *)
(*   "eth"  src/examples/webhook/etherium/webhook.ts lines 1-156           *)
(*   "ton"  src/examples/webhook/etherium/webhook.ts lines 158-307         *)
(*   "php"  src/examples/webhook/ton/webhook.php                           *)
(*                                                                         *)
(* A poll cycle is one invocation of findJetAcceptTransactions.  In the    *)
(* TypeScript variants it is an async function: the code between two       *)
(* awaits runs atomically, and each await (the chain read, the back-off    *)
(* timer, the webhook POST) is a point where the timer callback of         *)
(* setInterval can start another invocation.                               *)
(***************************************************************************)
EXTENDS Integers, Sequences, FiniteSets, TLC

(***************************************************************************)
(* Bounds of the model.                                                    *)
(***************************************************************************)
\* Invocations of findJetAcceptTransactions in one process lifetime
\* (the startup call plus the timer ticks).
MaxCycles == 2
\* Length of the transaction list the remote source holds.
MaxTx == 2
\* Process lifetimes: the first start plus the restarts.
MaxLifetimes == 2
\* Words a payload text is made of, when the matcher is applied on its own.
MaxWords == 2
\* Length of a hash, when sanitizeFilename is applied on its own.
MaxHashLen == 2

(***************************************************************************)
(* Program constants.                                                      *)
(***************************************************************************)
API_LIMIT == 20
maxRetries == 10
\* Back-off unit, milliseconds: setTimeout(resolve, 1000 * retryCount).
BACKOFF_UNIT == 1000

Variants == {"eth", "ton", "php"}

(***************************************************************************)
(* Text.  A string is a sequence of one-character strings.                 *)
(***************************************************************************)
Upper == <<"A","B","C","D","E","F","G","H","I","J","K","L","M",
           "N","O","P","Q","R","S","T","U","V","W","X","Y","Z">>
Lower == <<"a","b","c","d","e","f","g","h","i","j","k","l","m",
           "n","o","p","q","r","s","t","u","v","w","x","y","z">>

ToLowerChar(ch) ==
    IF \E k \in 1..Len(Upper) : Upper[k] = ch
    THEN Lower[CHOOSE k \in 1..Len(Upper) : Upper[k] = ch]
    ELSE ch

\* String.prototype.toLowerCase
toLowerCase(s) == [k \in 1..Len(s) |-> ToLowerChar(s[k])]

\* String.prototype.includes
includes(s, sub) ==
    \E k \in 0..(Len(s) - Len(sub)) : SubSeq(s, k + 1, k + Len(sub)) = sub

\* The characters the regular expression /[<>:"\/\\|?*\x00-\x1F]/ matches
\* ("NUL" and "LF" stand for the control characters \x00-\x1F).
ForbiddenChars == {"<", ">", ":", "\"", "/", "\\", "|", "?", "*", "NUL", "LF"}

\* A replacement by a character that hashes are made of.
sanitizeFilename_ToLetter(filename) ==
    [k \in 1..Len(filename) |->
        IF filename[k] \in ForbiddenChars THEN "a" ELSE filename[k]]

\* filename.replace(/[<>:"\/\\|?*\x00-\x1F]/g, "_")
sanitizeFilename(filename) ==
    [k \in 1..Len(filename) |->
        IF filename[k] \in ForbiddenChars THEN "_" ELSE filename[k]]

(***************************************************************************)
(* Markers and messages.                                                   *)
(***************************************************************************)
MarkerOrder == <<"O","r","d","e","r",":">>
MarkerDomain == <<"j","e","t","-","a","c","c","e","p","t",".","c","o","m">>
MarkerJetAccept == <<"j","e","t","-","a","c","c","e","p","t">>

\* "jet-accept.com #7"
MsgJet == MarkerDomain \o <<" ","#","7">>
\* "Order: 123"
MsgOrder == MarkerOrder \o <<" ","1","2","3">>
\* "hi"
MsgPlain == <<"h","i">>
\* No payload: input '0x' (Ethereum), no in_msg.message (TON).
MsgNone == <<>>

(***************************************************************************)
(* Transactions as the remote source returns them.  One record stands for  *)
(* both shapes: `to`, `payload`, `time` and `hash` are tx.to, tx.input,    *)
(* tx.timeStamp and tx.hash of Etherscan, and (ignoring `to`)              *)
(* tx.in_msg.message, tx.utime and tx.transaction_id.hash of toncenter.    *)
(*   to      "self": the watched address, "other": another address,        *)
(*           "nonstring": a value without toLowerCase (a number)           *)
(*   decodes FALSE: the input is not valid UTF-8                           *)
(*   time    "invalid": not a number (Date becomes Invalid Date)           *)
(***************************************************************************)
Tx(h, to, payload, decodes, time) ==
    [hash |-> h, to |-> to, payload |-> payload, decodes |-> decodes, time |-> time]

HashA == <<"a">>
\* toncenter hashes are base64 and may hold "/" and "+".
HashSlash == <<"/">>
HashB == <<"b">>
HashC == <<"c">>

\* The transactions the remote source can hold.  The state keeps a
\* transaction as its position in this table.
TxTable ==
    << Tx(HashA, "self", MsgJet, TRUE, "valid"),
       Tx(HashSlash, "self", MsgOrder, TRUE, "valid"),
       Tx(HashB, "self", MsgPlain, TRUE, "valid"),
       Tx(HashC, "self", MsgJet, TRUE, "invalid"),
       Tx(HashC, "nonstring", MsgJet, TRUE, "valid"),
       Tx(HashB, "other", MsgJet, TRUE, "valid"),
       Tx(HashB, "self", MsgNone, TRUE, "valid"),
       Tx(HashB, "self", MsgJet, FALSE, "valid") >>

TxIds == DOMAIN TxTable

Hashes == {TxTable[k].hash : k \in TxIds}

RECURSIVE SeqsUpTo(_, _)
SeqsUpTo(S, n) ==
    IF n = 0 THEN {<<>>}
    ELSE LET shorter == SeqsUpTo(S, n - 1)
         IN shorter \cup {Append(s, x) : s \in {q \in shorter : Len(q) = n - 1}, x \in S}

TxLists == SeqsUpTo(TxIds, MaxTx)

VARIABLES
    variant,     \* which of the three scripts runs
    argc,        \* number of positional arguments given
    proc,        \* "start", "running", "exited"
    exitCode,    \* exit status once exited, -1 before
    timer,       \* TRUE once setInterval has registered the poll callback
    chain,       \* the transactions the remote source holds, newest first
    ncycles,     \* invocations of findJetAcceptTransactions so far
    pc,          \* per invocation: "none", "fetch", "post", "done"
    retryCount,  \* fetchTransactions' local retryCount
    reads,       \* remote reads the running fetchTransactions call has made
    delay,       \* the back-off delay of the last sleep of the running call
    txs,         \* the list fetchTransactions returned
    outcome,     \* per invocation: what happened to transactions 1..k so far
    flags,       \* the files of FLAGS_DIR: a set of [key, hash]
    errlog,      \* what console.error / echo reported: <<cycle, index, kind>>
    sent,        \* per hash: webhook requests that left for WEBHOOK_URI
    accepted,    \* per hash: requests the receiver answered with a 2xx status
    lifetime,    \* which start of the process this is (1 = the first)
    arg,         \* argument of the function applied on its own
    ret          \* what that application returned

vars == <<variant, argc, proc, exitCode, timer, chain, ncycles, pc, retryCount,
          reads, delay, txs, outcome, flags, errlog, sent, accepted,
          lifetime, arg, ret>>

Cycles == 1..MaxCycles

(***************************************************************************)
(* Dedup store: FLAGS_DIR holds one file per sanitized hash, whose content *)
(* is the webhook that was sent (it names the transaction hash).           *)
(***************************************************************************)
\* A lookup by the content of the file instead of its name.
existsSync_ByContent(fl, key) == \E f \in fl : f.hash = key

\* fs.existsSync(flagPath) / file_exists($flagPath)
existsSync(fl, key) == \E f \in fl : f.key = key

\* fs.writeFileSync(flagPath, JSON.stringify(webhook)): creates or overwrites.
writeFileSync(fl, key, h) ==
    {f \in fl : f.key # key} \cup {[key |-> key, hash |-> h]}

(***************************************************************************)
(* Order matcher.                                                          *)
(***************************************************************************)
\* The text the marker is looked for in.  Ethereum: the decoded input
\* (ethers.toUtf8String); TON: in_msg.message.
Message(tx) == IF tx.decodes THEN tx.payload ELSE MsgNone

\* A matcher without the test of the recipient.
MatchesEth_AnyRecipient(tx) ==
    /\ tx.payload # MsgNone
    /\ tx.decodes
    /\ (includes(tx.payload, MarkerOrder) \/ includes(tx.payload, MarkerDomain))

\* Ethereum: inbound, input not '0x', decodable, and
\* message.includes('Order:') || message.includes('jet-accept.com').
MatchesEth(tx) ==
    /\ tx.to = "self"
    /\ tx.payload # MsgNone
    /\ tx.decodes
    /\ (includes(tx.payload, MarkerOrder) \/ includes(tx.payload, MarkerDomain))

\* TON: message.toLowerCase().includes("jet-accept") / stripos(...) !== false
MatchesTon(tx) == includes(toLowerCase(Message(tx)), MarkerJetAccept)

Matches(v, tx) == IF v = "eth" THEN MatchesEth(tx) ELSE MatchesTon(tx)

(***************************************************************************)
(* What the loop body does with one transaction up to its next await.      *)
(*   "NotTracked"  continue / no marker                                    *)
(*   "Skipped"     the flag file exists                                    *)
(*   "Error"       an exception caught by the per-transaction try          *)
(*   "Abort"       an exception that leaves the for loop (cycle catch)     *)
(*   "Fatal"       an uncaught error that ends the process                 *)
(*   "post"        the webhook request has been sent                       *)
(***************************************************************************)
\* A loop body in which the decode exception reaches the per-transaction
\* catch instead of the catch around the decode.
ProcessTxEth_DecodeThrows(tx, fl) ==
    IF tx.to = "nonstring" THEN "Abort"
    ELSE IF tx.to = "self" /\ tx.payload # MsgNone /\ ~tx.decodes THEN "Error"
    ELSE IF ~MatchesEth(tx) THEN "NotTracked"
    ELSE IF existsSync(fl, sanitizeFilename(tx.hash)) THEN "Skipped"
    ELSE IF tx.time = "invalid" THEN "Error"
    ELSE "post"

\* Ethereum variant: tx.to?.toLowerCase() is outside the inner try;
\* new Date(NaN).toISOString() throws inside it.
ProcessTxEth(tx, fl) ==
    IF tx.to = "nonstring" THEN "Abort"
    ELSE IF ~MatchesEth(tx) THEN "NotTracked"
    ELSE IF existsSync(fl, sanitizeFilename(tx.hash)) THEN "Skipped"
    ELSE IF tx.time = "invalid" THEN "Error"
    ELSE "post"

\* TON TypeScript variant: the loop body has no try of its own around the
\* payload construction.
ProcessTxTon(tx, fl) ==
    IF ~MatchesTon(tx) THEN "NotTracked"
    ELSE IF existsSync(fl, sanitizeFilename(tx.hash)) THEN "Skipped"
    ELSE IF tx.time = "invalid" THEN "Abort"
    ELSE "post"

\* PHP variant (PHP 8): date('c', <non-numeric>) throws a TypeError, which
\* catch (Exception $e) does not catch.
ProcessTxPhp(tx, fl) ==
    IF ~MatchesTon(tx) THEN "NotTracked"
    ELSE IF existsSync(fl, sanitizeFilename(tx.hash)) THEN "Skipped"
    ELSE IF tx.time = "invalid" THEN "Fatal"
    ELSE "post"

ProcessTx(v, tx, fl) ==
    CASE v = "eth" -> ProcessTxEth(tx, fl)
      [] v = "ton" -> ProcessTxTon(tx, fl)
      [] OTHER -> ProcessTxPhp(tx, fl)

\* The for loop from transaction i up to the next await or the end:
\* the outcomes of the transactions it finished and where it stopped.
RECURSIVE RunLoop(_, _, _, _)
RunLoop(v, list, i, fl) ==
    IF i > Len(list) THEN [out |-> <<>>, pc |-> "done"]
    ELSE LET r == ProcessTx(v, TxTable[list[i]], fl)
         IN CASE r = "post" -> [out |-> <<>>, pc |-> "post"]
              [] r = "Abort" -> [out |-> <<"Abort">>, pc |-> "done"]
              [] r = "Fatal" -> [out |-> <<"Fatal">>, pc |-> "fatal"]
              [] OTHER -> LET rest == RunLoop(v, list, i + 1, fl)
                          IN [out |-> <<r>> \o rest.out, pc |-> rest.pc]

\* What the loop reports for the outcomes out[1..], which belong to the
\* transactions from+1.. of cycle c.
LoopReports(c, from, out) ==
    {<<c, from + k, "processing">> : k \in {j \in 1..Len(out) : out[j] = "Error"}}
    \cup {<<c, from + k, "fetching">> : k \in {j \in 1..Len(out) : out[j] = "Abort"}}
    \cup {<<c, from + k, "fatal">> : k \in {j \in 1..Len(out) : out[j] = "Fatal"}}

(***************************************************************************)
(* Webhook delivery.                                                       *)
(***************************************************************************)
\* The URL the POST goes to.  In the PHP variant $WEBHOOK_URI is a global
\* that findJetAcceptTransactions does not import: curl_init(null).
WebhookTarget(v) == IF v = "php" THEN "null" ELSE "WEBHOOK_URI"

\* HTTP status of the answer; 0 is a transport error (no answer).
Statuses == {200, 204, 500, 0}
PostStatuses(v) == IF WebhookTarget(v) = "null" THEN {0} ELSE Statuses

\* What the receiver did: it accepted the request iff it answered 2xx.
Is2xx(status) == status >= 200 /\ status <= 299

\* A success test without its upper bound.
PostOk_NoUpperBound(v, status) == status >= 200

\* response.ok (TypeScript) / $httpCode === 200 (PHP)
PostOk(v, status) ==
    IF v = "php" THEN status = 200 ELSE status >= 200 /\ status <= 299

(***************************************************************************)
(* Startup.                                                                *)
(***************************************************************************)
\* Positional arguments each script needs.
RequiredArgs(v) == IF v = "eth" THEN 3 ELSE 2

\* process.exit(1) / die("Usage ...") (die with a string exits with 0)
UsageExitCode(v) == IF v = "php" THEN 0 ELSE 1

\* Only the Ethereum variant calls setInterval.
HasTimer(v) == v = "eth"

\* data.result.slice(0, API_LIMIT) / &limit=API_LIMIT
Slice(list) == SubSeq(list, 1, IF Len(list) < API_LIMIT THEN Len(list) ELSE API_LIMIT)

\* A back-off that does not grow.
BackoffDelay_Constant(rc) == BACKOFF_UNIT

\* 1000 * retryCount / sleep($retryCount)
BackoffDelay(rc) == BACKOFF_UNIT * rc

Init ==
    /\ variant \in Variants
    /\ argc \in 1..3
    /\ proc = "start"
    /\ exitCode = -1
    /\ timer = FALSE
    /\ chain \in TxLists
    /\ ncycles = 0
    /\ pc = [c \in Cycles |-> "none"]
    /\ retryCount = [c \in Cycles |-> 0]
    /\ reads = [c \in Cycles |-> 0]
    /\ delay = [c \in Cycles |-> 0]
    /\ txs = [c \in Cycles |-> <<>>]
    /\ outcome = [c \in Cycles |-> <<>>]
    /\ flags = {}
    /\ errlog = {}
    /\ sent = [h \in Hashes |-> 0]
    /\ accepted = [h \in Hashes |-> 0]
    /\ lifetime = 1
    /\ arg = <<>>
    /\ ret = <<>>

\* findJetAcceptTransactions(address) up to its first await: the first
\* remote read of fetchTransactions is under way.
StartCycle(c) ==
    /\ ncycles' = c
    /\ pc' = [pc EXCEPT ![c] = "fetch"]
    /\ reads' = [reads EXCEPT ![c] = 1]

\* The top level of the script: argument checks, the first call and
\* (Ethereum only) setInterval.
Startup ==
    /\ proc = "start"
    /\ IF argc < RequiredArgs(variant)
       THEN /\ proc' = "exited"
            /\ exitCode' = UsageExitCode(variant)
            /\ UNCHANGED <<timer, ncycles, pc, reads>>
       ELSE /\ proc' = "running"
            /\ timer' = HasTimer(variant)
            /\ StartCycle(1)
            /\ UNCHANGED exitCode
    /\ UNCHANGED <<lifetime, arg, ret, variant, argc, chain, retryCount, delay, txs, outcome, flags, errlog,
                   sent, accepted>>

\* The setInterval callback.
Tick ==
    /\ proc = "running"
    /\ timer
    /\ ncycles < MaxCycles
    /\ StartCycle(ncycles + 1)
    /\ UNCHANGED <<lifetime, arg, ret, variant, argc, proc, exitCode, timer, chain, retryCount, delay,
                   txs, outcome, flags, errlog, sent, accepted>>

\* The loop of cycle c continues at transaction `from + 1` with the flag
\* files fl, after the outcomes `before` of transactions 1..from and the
\* reports `rep`; it runs to its next POST or to its end.
Continue(c, from, before, list, fl, rep) ==
    LET r == RunLoop(variant, list, from + 1, fl)
        at == from + Len(r.out) + 1
    IN /\ outcome' = [outcome EXCEPT ![c] = before \o r.out]
       /\ errlog' = errlog \cup rep \cup LoopReports(c, from, r.out)
       /\ pc' = [pc EXCEPT ![c] = IF r.pc = "post" THEN "post" ELSE "done"]
       /\ sent' = IF r.pc = "post" /\ WebhookTarget(variant) = "WEBHOOK_URI"
                  THEN [sent EXCEPT ![TxTable[list[at]].hash] = @ + 1]
                  ELSE sent
       /\ IF r.pc = "fatal"
          THEN proc' = "exited" /\ exitCode' = 255
          ELSE UNCHANGED <<proc, exitCode>>

\* A remote read answers with success: fetchTransactions returns and the
\* loop runs up to its first await.
FetchOk(c) ==
    /\ proc = "running"
    /\ pc[c] = "fetch"
    /\ txs' = [txs EXCEPT ![c] = Slice(chain)]
    /\ retryCount' = [retryCount EXCEPT ![c] = 0]
    /\ reads' = [reads EXCEPT ![c] = 0]
    /\ delay' = [delay EXCEPT ![c] = 0]
    /\ Continue(c, 0, <<>>, Slice(chain), flags, {})
    /\ UNCHANGED <<lifetime, arg, ret, variant, argc, timer, chain, ncycles, flags, accepted>>

\* A fetch failure that ends the process after the last retry instead of
\* being caught by the cycle.
FetchFail_Exit(c) ==
    /\ proc = "running"
    /\ pc[c] = "fetch"
    /\ IF retryCount[c] + 1 = maxRetries
       THEN /\ pc' = [pc EXCEPT ![c] = "done"]
            /\ errlog' = errlog \cup {<<c, 0, "fetching">>}
            /\ retryCount' = [retryCount EXCEPT ![c] = 0]
            /\ reads' = [reads EXCEPT ![c] = 0]
            /\ delay' = [delay EXCEPT ![c] = 0]
            /\ proc' = "exited"
            /\ exitCode' = 1
       ELSE /\ retryCount[c] + 1 < maxRetries
            /\ retryCount' = [retryCount EXCEPT ![c] = retryCount[c] + 1]
            /\ delay' = [delay EXCEPT ![c] = BackoffDelay(retryCount[c] + 1)]
            /\ reads' = [reads EXCEPT ![c] = reads[c] + 1]
            /\ UNCHANGED <<errlog, pc, proc, exitCode>>
    /\ UNCHANGED <<lifetime, arg, ret, variant, argc, timer, chain, ncycles, txs,
                   outcome, flags, sent, accepted>>

\* A remote read fails (transport error or non-success status): the catch
\* block counts it and either throws or, after the back-off sleep, lets the
\* while loop start the next read.  The sleep itself always ends, and
\* nothing another invocation does can tell it from the wait for the read
\* that follows it, so both waits are the one state "fetch".
FetchFail(c) ==
    /\ proc = "running"
    /\ pc[c] = "fetch"
    /\ IF retryCount[c] + 1 = maxRetries
       THEN \* throw new Error("Failed to fetch ..."), caught by the cycle's catch
            /\ pc' = [pc EXCEPT ![c] = "done"]
            /\ errlog' = errlog \cup {<<c, 0, "fetching">>}
            /\ retryCount' = [retryCount EXCEPT ![c] = 0]
            /\ reads' = [reads EXCEPT ![c] = 0]
            /\ delay' = [delay EXCEPT ![c] = 0]
       ELSE /\ retryCount[c] + 1 < maxRetries
            /\ retryCount' = [retryCount EXCEPT ![c] = retryCount[c] + 1]
            /\ delay' = [delay EXCEPT ![c] = BackoffDelay(retryCount[c] + 1)]
            /\ reads' = [reads EXCEPT ![c] = reads[c] + 1]
            /\ UNCHANGED <<errlog, pc>>
    /\ UNCHANGED <<lifetime, arg, ret, variant, argc, proc, exitCode, timer, chain, ncycles, txs,
                   outcome, flags, sent, accepted>>

\* The webhook POST of cycle c answers (or fails); the flag file is written
\* after a POST the script takes for successful, and the loop goes on to its
\* next await.  `written` is whether writeFileSync / file_put_contents
\* succeeds.
PostResp(c) ==
    /\ proc = "running"
    /\ pc[c] = "post"
    /\ LET i == Len(outcome[c]) + 1
           tx == TxTable[txs[c][i]]
       IN \E status \in PostStatuses(variant), written \in BOOLEAN :
            LET res == IF ~PostOk(variant, status) THEN "Failed"
                       ELSE IF written THEN "Delivered" ELSE "RecordWriteFailed"
                fl == IF res = "Delivered"
                      THEN writeFileSync(flags, sanitizeFilename(tx.hash), tx.hash)
                      ELSE flags
                \* console.error("Failed to send webhook ...") also catches the
                \* exception of writeFileSync; PHP does not check file_put_contents.
                rep == IF res = "Failed" \/ (res = "RecordWriteFailed" /\ variant # "php")
                       THEN {<<c, i, "webhook">>} ELSE {}
            IN /\ (res = "Failed" => written)
               /\ flags' = fl
               /\ accepted' = IF Is2xx(status)
                              THEN [accepted EXCEPT ![tx.hash] = @ + 1]
                              ELSE accepted
               /\ Continue(c, i, Append(outcome[c], res), txs[c], fl, rep)
    /\ UNCHANGED <<lifetime, arg, ret, variant, argc, timer, chain, ncycles, retryCount, reads, delay, txs>>

\* Without a timer nothing keeps the process alive once the only call of
\* findJetAcceptTransactions has finished: the script ends.
ProcessEnd ==
    /\ proc = "running"
    /\ ~timer
    /\ \A c \in 1..ncycles : pc[c] = "done"
    /\ proc' = "exited"
    /\ exitCode' = 0
    /\ UNCHANGED <<lifetime, arg, ret, variant, argc, timer, chain, ncycles, pc, retryCount, reads, delay,
                   txs, outcome, flags, errlog, sent, accepted>>

Next ==
    \/ Startup
    \/ Tick
    \/ \E c \in Cycles : FetchOk(c)
    \/ \E c \in Cycles : FetchFail(c)
    \/ \E c \in Cycles : PostResp(c)
    \/ ProcessEnd

Spec == Init /\ [][Next]_vars

\* What the runtime does by itself always happens: the top level runs, a
\* due timer callback is called, a script with nothing pending ends.  An
\* answer of the remote source or of the receiver is not owed: no call sets
\* a timeout (no AbortSignal, no CURLOPT_TIMEOUT), so a call may wait
\* forever.
SpecLive ==
    /\ Spec
    /\ WF_vars(Startup)
    /\ WF_vars(Tick)
    /\ WF_vars(ProcessEnd)

(***************************************************************************)
(* Observations used by the properties.                                    *)
(***************************************************************************)
\* Transactions of cycle c the loop has finished with.
Processed(c) == Len(outcome[c])

\* Transactions of cycle c the loop has reached: the finished ones and the
\* one whose POST is in flight.
Reached(c) == Processed(c) + (IF pc[c] = "post" THEN 1 ELSE 0)

TxAt(c, i) == TxTable[txs[c][i]]
HashAt(c, i) == TxAt(c, i).hash
KeyAt(c, i) == sanitizeFilename(HashAt(c, i))

\* deliver is invoked for the transactions the matcher tracks.
TrackedAt(c, i) == Matches(variant, TxAt(c, i))

\* Indices of cycle c for which a webhook POST was started.
PostIdx(c) ==
    {i \in 1..Processed(c) : outcome[c][i] \in {"Delivered", "RecordWriteFailed", "Failed"}}
    \cup (IF pc[c] = "post" THEN {Processed(c) + 1} ELSE {})

PostsOf(c, h) == {i \in PostIdx(c) : HashAt(c, i) = h}

\* All POSTs started for hash h, as <<cycle, index>>.
PostsFor(h) == {<<c, i>> \in Cycles \X (1..MaxTx) : i \in PostsOf(c, h)}

\* The flag file named key exists.
FlagExists(key) == \E f \in flags : f.key = key

\* A flag file whose content names hash h exists.
RecordFor(h) == \E f \in flags : f.hash = h

\* fetchTransactions of cycle c threw after its last retry.
Exhausted(c) == <<c, 0, "fetching">> \in errlog

\* Cycle c got a list from fetchTransactions.
Fetched(c) == pc[c] \in {"post", "done"} /\ ~Exhausted(c)

Running(c) == pc[c] \in {"fetch", "post"}

\* The record write after an accepted POST for h failed at least once.
WriteFailedFor(h) ==
    \E c \in Cycles : \E i \in 1..Processed(c) :
        outcome[c][i] = "RecordWriteFailed" /\ HashAt(c, i) = h

\* POSTs for h that are still waiting for their answer.
InFlight(h) == {c \in Cycles : pc[c] = "post" /\ HashAt(c, Processed(c) + 1) = h}

\* Every field of the transaction has the shape the scripts expect.
WellFormed(tx) == tx.to # "nonstring" /\ tx.time = "valid"

(***************************************************************************)
(* Restart.  The process is stopped from outside at any moment and the     *)
(* script is started again with the same arguments.  Everything in memory  *)
(* is lost; the files of FLAGS_DIR stay (the top level creates the         *)
(* directory only when it is missing and never empties it).  A request     *)
(* that was waiting for its answer has left: the receiver may still accept *)
(* it, and nobody reads the answer.                                        *)
(***************************************************************************)
\* What a restart resets, given the files the new process finds.
RestartWith(fl) ==
    /\ proc # "start"
    /\ lifetime < MaxLifetimes
    /\ lifetime' = lifetime + 1
    /\ proc' = "start"
    /\ exitCode' = -1
    /\ timer' = FALSE
    /\ ncycles' = 0
    /\ pc' = [c \in Cycles |-> "none"]
    /\ retryCount' = [c \in Cycles |-> 0]
    /\ reads' = [c \in Cycles |-> 0]
    /\ delay' = [c \in Cycles |-> 0]
    /\ txs' = [c \in Cycles |-> <<>>]
    /\ outcome' = [c \in Cycles |-> <<>>]
    /\ errlog' = {}
    /\ flags' = fl
    /\ \E late \in [Hashes -> 0..MaxCycles] :
          /\ \A h \in Hashes : late[h] <= Cardinality(InFlight(h))
          /\ accepted' = [h \in Hashes |-> accepted[h] + late[h]]
    /\ UNCHANGED <<variant, argc, chain, sent, arg, ret>>

\* A start that empties the flag directory.
Restart_WipesFlags == RestartWith({})

Restart == RestartWith(flags)

NextRestart ==
    \/ Next
    \/ Restart

SpecRestart == Init /\ [][NextRestart]_vars

(***************************************************************************)
(* C11.  Durability of the flag files across restarts.                     *)
(***************************************************************************)
\* No step removes a flag file, and while the flag file of H exists no step
\* starts a POST for H.
C11_Step ==
    /\ \A f \in flags : FlagExists(f.key)'
    /\ \A h \in Hashes :
          FlagExists(sanitizeFilename(h))
              => /\ sent'[h] = sent[h]
                 /\ \A c \in Cycles : PostsOf(c, h)' \subseteq PostsOf(c, h)

\* C11: dedup records are never removed by any operation or by a restart;
\* after a restart exists(H) holds for every H recorded earlier and no POST
\* is sent for it in any later cycle.
C11_DurableAcrossRestarts == [][C11_Step]_vars

\* In its second lifetime the process has run one cycle, which skipped a
\* hash that was delivered once, in the first lifetime.
C11_Witness ==
    /\ lifetime = 2
    /\ ncycles = 1
    /\ pc[1] = "done"
    /\ \E i \in 1..Processed(1) :
          /\ outcome[1][i] = "Skipped"
          /\ sent[HashAt(1, i)] = 1
          /\ \A j \in 1..Processed(1) : j # i => HashAt(1, j) # HashAt(1, i)

(***************************************************************************)
(* The matcher applied on its own: which texts it tracks and which order   *)
(* id it extracts.                                                         *)
(***************************************************************************)
\* The state of the program proper while a function is applied on its own.
program == <<argc, proc, exitCode, timer, chain, ncycles, pc, retryCount, reads,
             delay, txs, outcome, flags, errlog, sent, accepted, lifetime>>

Quiet ==
    /\ argc = 3
    /\ proc = "start"
    /\ exitCode = -1
    /\ timer = FALSE
    /\ chain = <<>>
    /\ ncycles = 0
    /\ pc = [c \in Cycles |-> "none"]
    /\ retryCount = [c \in Cycles |-> 0]
    /\ reads = [c \in Cycles |-> 0]
    /\ delay = [c \in Cycles |-> 0]
    /\ txs = [c \in Cycles |-> <<>>]
    /\ outcome = [c \in Cycles |-> <<>>]
    /\ flags = {}
    /\ errlog = {}
    /\ sent = [h \in Hashes |-> 0]
    /\ accepted = [h \in Hashes |-> 0]
    /\ lifetime = 1

\* "ORDER:", "Jet-accept.com" (the spelling of the TON order pattern)
WordOrderUpper == <<"O","R","D","E","R",":">>
WordDomainCapital == <<"J","e","t","-","a","c","c","e","p","t",".","c","o","m">>

Words == {MarkerOrder, WordOrderUpper, MarkerDomain, WordDomainCapital,
          <<" ","#","7">>, <<" ","1","2">>, <<"h","i">>, <<":">>}

RECURSIVE TextsUpTo(_)
TextsUpTo(n) ==
    IF n = 0 THEN {<<>>}
    ELSE LET shorter == TextsUpTo(n - 1)
         IN shorter \cup {t \o w : t \in shorter, w \in Words}

Payloads == TextsUpTo(MaxWords)

\* The marker test on the message text.
\* Ethereum: message.includes('Order:') || message.includes('jet-accept.com')
\* TON: message.toLowerCase().includes("jet-accept") / stripos
TextTracked(v, msg) ==
    IF v = "eth"
    THEN includes(msg, MarkerOrder) \/ includes(msg, MarkerDomain)
    ELSE includes(toLowerCase(msg), MarkerJetAccept)

\* String.prototype.trim, for the blank.
RECURSIVE trim(_)
trim(s) ==
    IF s = <<>> THEN s
    ELSE IF Head(s) = " " THEN trim(Tail(s))
    ELSE IF s[Len(s)] = " " THEN trim(SubSeq(s, 1, Len(s) - 1))
    ELSE s

\* The capture of /<prefix>([^:]+)/ in msg: the leftmost place where the
\* prefix is followed by a character other than ":", and from there the
\* longest run without ":".  ci: the /i flag.  <<"null">> when no match.
Capture(msg, prefix, ci) ==
    LET norm(t) == IF ci THEN toLowerCase(t) ELSE t
        n == Len(prefix)
        at == {k \in 1..(Len(msg) - n) :
                  /\ SubSeq(norm(msg), k, k + n - 1) = norm(prefix)
                  /\ msg[k + n] # ":"}
    IN IF at = {} THEN <<"null">>
       ELSE LET k0 == CHOOSE k \in at : \A j \in at : k <= j
                from == k0 + n
                upto == CHOOSE e \in from..Len(msg) :
                            /\ \A j \in from..e : msg[j] # ":"
                            /\ e = Len(msg) \/ msg[e + 1] = ":"
            IN SubSeq(msg, from, upto)

\* "Order: " and "Jet-accept.com #"
PrefixOrder == MarkerOrder \o <<" ">>
PrefixDomain == WordDomainCapital \o <<" ","#">>

\* Ethereum: message.match(/Order: ([^:]+)/), then trim();
\* TON: message.match(/Jet-accept\.com #([^:]+)/i), untrimmed.
orderId(v, msg) ==
    IF v = "eth"
    THEN LET m == Capture(msg, PrefixOrder, FALSE)
         IN IF m = <<"null">> THEN m ELSE trim(m)
    ELSE Capture(msg, PrefixDomain, TRUE)

\* What the matcher yields for a message text.
match(v, msg) ==
    IF TextTracked(v, msg)
    THEN [tracked |-> TRUE, orderId |-> orderId(v, msg)]
    ELSE [tracked |-> FALSE, orderId |-> <<"null">>]

InitMatch ==
    /\ Quiet
    /\ variant \in Variants
    /\ arg \in Payloads
    /\ ret = <<>>

CallMatch ==
    /\ ret' = match(variant, arg)
    /\ UNCHANGED <<program, variant, arg>>

NextMatch == CallMatch

SpecMatch == InitMatch /\ [][NextMatch]_vars

(***************************************************************************)
(* sanitizeFilename applied on its own to two hashes.                      *)
(***************************************************************************)
\* Characters of the hashes the two sources return: Etherscan hashes are
\* "0x" and hexadecimal digits, toncenter hashes are base64 (letters,
\* digits, "+", "/", "=").  "a" stands for the letters and digits.
ChainChars == {"a", "/", "+"}

\* Characters of arbitrary strings: also "_" and another forbidden one.
HashChars == ChainChars \cup {"_", ":"}

HashStrings == UNION {[1..n -> HashChars] : n \in 0..MaxHashLen}

IsChainHash(h) == \A k \in 1..Len(h) : h[k] \in ChainChars

InitSanitize ==
    /\ Quiet
    /\ variant \in Variants
    /\ arg \in HashStrings \X HashStrings
    /\ ret = <<>>

CallSanitize ==
    /\ ret' = <<sanitizeFilename(arg[1]), sanitizeFilename(arg[2])>>
    /\ UNCHANGED <<program, variant, arg>>

NextSanitize == CallSanitize

SpecSanitize == InitSanitize /\ [][NextSanitize]_vars

(***************************************************************************)
(* C1.  A transaction whose flag file exists when the loop reaches it is   *)
(* skipped without a POST; a hash delivered earlier in a cycle is skipped  *)
(* when the cycle meets it again, with one POST in all.                    *)
(***************************************************************************)
\* The transactions cycle c reaches in this step find the flag files of the
\* state the step ends in: the loop runs on after the write of PostResp.
C1_Step ==
    \A c \in Cycles :
        \A j \in (Reached(c) + 1)..Reached(c)' :
            (TrackedAt(c, j)' /\ FlagExists(KeyAt(c, j))')
                => /\ j <= Processed(c)'
                   /\ outcome'[c][j] = "Skipped"
                   /\ sent'[HashAt(c, j)'] = sent[HashAt(c, j)']

C1_Twice ==
    \A c \in Cycles :
        \A i \in 1..Processed(c) :
            outcome[c][i] = "Delivered"
                => \A j \in (i + 1)..Reached(c) :
                       (HashAt(c, j) = HashAt(c, i) /\ TrackedAt(c, j))
                           => /\ j <= Processed(c)
                              /\ outcome[c][j] = "Skipped"

\* C1: a record that exists when deliver is invoked for H makes deliver
\* Skipped with no POST; Delivered is followed by Skipped, one POST in all.
C1_SkipWhenRecorded == [][C1_Step]_vars /\ []C1_Twice

\* A hash was delivered and then met again and skipped, with one POST.
C1_Witness ==
    \E c \in Cycles : \E i \in 1..Processed(c) : \E j \in 1..Processed(c) :
        /\ i < j
        /\ HashAt(c, j) = HashAt(c, i)
        /\ outcome[c][i] = "Delivered"
        /\ outcome[c][j] = "Skipped"
        /\ Cardinality(PostsFor(HashAt(c, i))) = 1
        /\ sent[HashAt(c, i)] = 1

(***************************************************************************)
(* C2.  While no POST for a tracked transaction H has been accepted, no    *)
(* record for H exists and every finished cycle whose fetched list holds H *)
(* has made a POST attempt for H.                                          *)
(***************************************************************************)
\* C2: if every POST for H fails, no record for H is written and every
\* cycle whose fetched list contains H attempts a POST for H.
C2_RetryUntilDelivered ==
    \A c \in Cycles :
        (pc[c] = "done" /\ Fetched(c))
            => \A i \in 1..Len(txs[c]) :
                   (TrackedAt(c, i) /\ WellFormed(TxAt(c, i)) /\ accepted[HashAt(c, i)] = 0)
                       => /\ ~RecordFor(HashAt(c, i))
                          /\ PostsOf(c, HashAt(c, i)) # {}

(***************************************************************************)
(* C3.  Record and accepted POST.                                          *)
(***************************************************************************)
\* C3 as stated: with no delivery in flight, a record for H exists if and
\* only if a POST for H was accepted.
C3_RecordIffAccepted ==
    (\A c \in Cycles : pc[c] # "post")
        => \A h \in Hashes : RecordFor(h) <=> accepted[h] > 0

\* C3 as amended: a record for H exists only if a POST for H was accepted,
\* and an accepted POST for H leaves a record unless its record write failed.
C3_RecordOnlyIfAccepted ==
    \A h \in Hashes :
        /\ RecordFor(h) => accepted[h] > 0
        /\ FlagExists(sanitizeFilename(h)) => accepted[h] > 0
        /\ (accepted[h] > 0 /\ ~WriteFailedFor(h)) => RecordFor(h)

\* A POST was accepted, its record write failed, and nothing is in flight.
C3_Witness ==
    \E h \in Hashes :
        /\ accepted[h] > 0
        /\ WriteFailedFor(h)
        /\ ~RecordFor(h)
        /\ \A c \in Cycles : pc[c] # "post"
        /\ \E g \in Hashes : RecordFor(g)

(***************************************************************************)
(* C4.  At most one accepted POST per hash.                                *)
(***************************************************************************)
\* C4: without a failing record write, the receiver accepts at most one
\* POST per transaction hash, whatever the interleaving.
C4_AtMostOneAccepted ==
    (\A h \in Hashes : ~WriteFailedFor(h))
        => \A h \in Hashes : accepted[h] <= 1

(***************************************************************************)
(* C5.  End-to-end delivery in every variant.                              *)
(***************************************************************************)
\* The receiver has answered every request it got with success.
ReceiverAnswersSuccess ==
    \A h \in Hashes : sent[h] = accepted[h] + Cardinality(InFlight(h))

\* C5: a cycle whose fetch succeeded, over well-formed transactions and with
\* a receiver that answers success, ends with a record for every tracked
\* hash of its list and has sent at most one POST for it, which went to the
\* configured URI.
C5_EndToEnd ==
    \A c \in Cycles :
        ( /\ pc[c] = "done"
          /\ Fetched(c)
          /\ \A i \in 1..Len(txs[c]) : WellFormed(TxAt(c, i))
          /\ ReceiverAnswersSuccess
          /\ \A h \in Hashes : ~WriteFailedFor(h) )
            => \A i \in 1..Len(txs[c]) :
                   TrackedAt(c, i)
                       => /\ FlagExists(KeyAt(c, i))
                          /\ Cardinality(PostsOf(c, HashAt(c, i))) <= 1
                          /\ sent[HashAt(c, i)] >= 1

(***************************************************************************)
(* C6.  Per-transaction failure isolation.                                 *)
(***************************************************************************)
\* C6: a failure at one transaction is caught at that transaction and the
\* later transactions of the list are still processed in the same cycle.
C6_FailureIsolation ==
    \A c \in Cycles :
        (pc[c] = "done" /\ Fetched(c) /\ variant \in {"eth", "ton"})
            => Processed(c) = Len(txs[c])

(***************************************************************************)
(* C7.  Fetch exhaustion ends the cycle and nothing else.                  *)
(***************************************************************************)
\* C7: a cycle whose fetch is exhausted processes no transaction, sends no
\* POST, writes no record and reports the failure; the process keeps
\* running with its timer, and the next tick starts a new cycle.
C7_ExhaustionAbortsCycleOnly ==
    \A c \in Cycles :
        Exhausted(c)
            => /\ pc[c] = "done"
               /\ txs[c] = <<>>
               /\ outcome[c] = <<>>
               /\ PostIdx(c) = {}
               /\ exitCode \in {-1, 0}
               /\ HasTimer(variant)
                      => /\ proc = "running"
                         /\ timer
                         /\ ncycles < MaxCycles => ENABLED Tick

\* A cycle was exhausted and a later cycle is at work.
C7_Witness ==
    \E c \in Cycles : \E d \in Cycles :
        /\ Exhausted(c)
        /\ d > c
        /\ pc[d] = "post"
        /\ flags = {}

(***************************************************************************)
(* C8.  fetchTransactions: ten reads, growing back-off, immediate return.  *)
(***************************************************************************)
C8_Step ==
    \A c \in Cycles :
        \* the throw after the last retry comes after exactly maxRetries reads
        /\ (~Exhausted(c) /\ Exhausted(c)')
               => reads[c] = maxRetries /\ retryCount[c] + 1 = maxRetries
        \* each re-attempt waits longer than the one before it
        /\ (reads[c] > 0 /\ reads'[c] > reads[c])
               => /\ reads'[c] = reads[c] + 1
                  /\ delay'[c] > delay[c]
                  /\ delay'[c] = BACKOFF_UNIT * reads[c]
        \* a successful read number k returns at once, after k reads
        /\ (pc[c] = "fetch" /\ Fetched(c)')
               => reads[c] = retryCount[c] + 1 /\ reads[c] <= maxRetries
        \* and no read follows the return
        /\ pc[c] \in {"post", "done"} => (pc'[c] \in {"post", "done"} /\ reads'[c] = 0)

C9_LoopNeverEnds ==
    (proc # "start" /\ argc >= RequiredArgs(variant))
        => proc = "running" /\ timer

(***************************************************************************)
(* C10.  Single logical worker.                                            *)
(***************************************************************************)
\* C10: at most one poll cycle is in progress at any time.
C10_SingleWorker == Cardinality({c \in Cycles : Running(c)}) <= 1

(***************************************************************************)
(* C12.  One POST per hash and cycle.                                      *)
(***************************************************************************)
\* C12: within one poll cycle at most one webhook POST is attempted per
\* transaction hash, whether it succeeds or fails, also when the fetched
\* list holds the hash more than once.
C12_OnePostPerHashPerCycle ==
    \A c \in Cycles : \A h \in Hashes : Cardinality(PostsOf(c, h)) <= 1

(***************************************************************************)
(* C13.  Classification of the answer to the webhook POST.                 *)
(***************************************************************************)
\* The script takes an answer for a success exactly when its status is 2xx.
C13_Classifies ==
    (\E c \in Cycles : pc[c] = "post")
        => \A status \in Statuses : PostOk(variant, status) <=> Is2xx(status)

\* When the POST of cycle c is answered: an accepted request ends as a
\* delivery whose record is written (unless the write fails), any other
\* answer ends as Failed and writes nothing.
C13_Step ==
    \A c \in Cycles :
        (pc[c] = "post" /\ Processed(c)' > Processed(c))
            => LET i == Processed(c) + 1
                   h == HashAt(c, i)
                   key == KeyAt(c, i)
                   res == outcome'[c][i]
               IN /\ accepted'[h] > accepted[h]
                       => /\ res \in {"Delivered", "RecordWriteFailed"}
                          /\ res = "Delivered" => \E f \in flags' : f.key = key
                  /\ accepted'[h] = accepted[h]
                       => res = "Failed" /\ flags' = flags

\* C13: any 2xx answer is a success (record written, not re-sent), any
\* other status or a transport error is Failed (no record), in each
\* variant.
C13_OutcomeClassification == [][C13_Step]_vars /\ []C13_Classifies

(***************************************************************************)
(* C14.  A transaction without a usable payload is not tracked, silently.  *)
(***************************************************************************)
\* The payload is absent or empty, or it does not decode to text.
NoText(tx) == tx.payload = MsgNone \/ ~tx.decodes

HoldsMarkerAnyCase(v, msg) ==
    IF v = "eth"
    THEN \/ includes(toLowerCase(msg), toLowerCase(MarkerOrder))
         \/ includes(toLowerCase(msg), toLowerCase(MarkerDomain))
    ELSE includes(toLowerCase(msg), toLowerCase(MarkerJetAccept))

\* C15: a payload text that holds a recognised marker in any letter case is
\* tracked, and the result is a function of the payload.
C15_MarkerAnyCase ==
    ret # <<>>
        => /\ HoldsMarkerAnyCase(variant, arg) => ret.tracked
           /\ ret = match(variant, arg)

(***************************************************************************)
(* C16.  Distinct hashes, distinct keys.                                   *)
(***************************************************************************)
\* C16 as stated: any two distinct hashes sanitize to distinct keys.
C16_Injective ==
    ret # <<>> => (arg[1] # arg[2] => ret[1] # ret[2])

\* C16 as amended: two distinct hashes in the encodings of the two chains
\* (hexadecimal, base64) sanitize to distinct keys.
C16_InjectiveOnChainHashes ==
    (ret # <<>> /\ IsChainHash(arg[1]) /\ IsChainHash(arg[2]))
        => (arg[1] # arg[2] => ret[1] # ret[2])

\* Two distinct base64 hashes that sanitizeFilename changes.
C16_Witness ==
    /\ arg = << <<"/", "a">>, <<"a", "/">> >>
    /\ ret = << <<"_", "a">>, <<"a", "_">> >>

(***************************************************************************)
(* C17.  Missing startup arguments.                                        *)
(***************************************************************************)
\* C17: with a required argument missing the process ends with a non-zero
\* exit status before any fetch or POST, in each variant; and the process
\* ends by itself in no other case.
C17_StartupConfig ==
    /\ (proc # "start" /\ argc < RequiredArgs(variant))
           => /\ proc = "exited"
              /\ exitCode # 0
              /\ ncycles = 0
              /\ \A h \in Hashes : sent[h] = 0
    /\ proc = "exited" => argc < RequiredArgs(variant)

(***************************************************************************)
(* C18.  A record write that fails after an accepted POST.                 *)
(***************************************************************************)
\* The step in which the write for entry i of cycle c fails reports it and
\* leaves the flag files as they were.
C18_Step ==
    \A c \in Cycles :
        (pc[c] = "post" /\ Processed(c)' > Processed(c))
            => LET i == Processed(c) + 1
               IN outcome'[c][i] = "RecordWriteFailed"
                      => /\ <<c, i, "webhook">> \in errlog'
                         /\ <<c, i, "webhook">> \notin errlog
                         /\ flags' = flags

\* After a failed record write for H the cycle has sent one POST for H.
C18_NoResend ==
    \A c \in Cycles :
        \A i \in 1..Processed(c) :
            outcome[c][i] = "RecordWriteFailed"
                => Cardinality(PostsOf(c, HashAt(c, i))) = 1

\* C18: a record write that fails after an accepted POST for H is
\* reported, H is not POSTed again in the same cycle, and H is left
\* without a record.
C18_RecordWriteFailure == [][C18_Step]_vars /\ []C18_NoResend

(***************************************************************************)
(* C19.  Every cycle ends.                                                 *)
(***************************************************************************)
\* C19: every poll cycle that starts eventually finishes, also when a
\* remote call never answers.
C19_CycleTerminates ==
    \A c \in Cycles : Running(c) ~> (pc[c] = "done")

(***************************************************************************)
(* C20.  Only tracked transactions reach delivery.                         *)
(***************************************************************************)
\* The transaction is one the variant tracks: its text holds a marker and,
\* in the Ethereum variant, it is sent to the watched address.
IsTracked(v, tx) ==
    /\ v = "eth" => tx.to = "self"
    /\ tx.decodes
    /\ TextTracked(v, tx.payload)

\* Hashes of the tracked transactions the source holds.
TrackedHashes == {TxTable[chain[k]].hash : k \in {j \in 1..Len(chain) : IsTracked(variant, TxTable[chain[j]])}}

\* C20: a POST is sent and a record is written only for hashes of fetched
\* transactions that are tracked; a transaction that is not tracked (in the
\* Ethereum variant also one sent to another address) is passed over.
C20_OnlyTrackedDelivered ==
    /\ \A c \in Cycles : \A i \in PostIdx(c) : IsTracked(variant, TxAt(c, i))
    /\ \A c \in Cycles : \A i \in 1..Processed(c) :
           ~IsTracked(variant, TxAt(c, i)) => outcome[c][i] \in {"NotTracked", "Abort"}
    /\ \A h \in Hashes : (sent[h] > 0 \/ accepted[h] > 0) => h \in TrackedHashes
    /\ \A f \in flags : f.hash \in TrackedHashes /\ f.key = sanitizeFilename(f.hash)

\* The Ethereum script passed over a marked transaction sent to another
\* address and delivered the next one.
C20_Witness ==
    /\ variant = "eth"
    /\ \E c \in Cycles :
          /\ pc[c] = "done"
          /\ Processed(c) = 2
          /\ TxAt(c, 1).to = "other"
          /\ includes(TxAt(c, 1).payload, MarkerDomain)
          /\ outcome[c] = <<"NotTracked", "Delivered">>
          /\ sent[HashAt(c, 1)] = 0
          /\ Cardinality(flags) = 1

=============================================================================
